---- MODULE Spec2Model ----
(***************************************************************************)
(* A model of the locus-resolution core of pbhla (HlaTools):               *)
(*   - pbhla/reference/ReferenceDict.py : the constrained mapping and its  *)
(*     four construction modes and write();                                *)
(*   - pbhla/dictionary.py              : the create_*_reference folds and *)
(*     filter_m5_file;                                                     *)
(*   - pbhla/sequences/orientation.py   : orient_sequences.                *)
(* Python strings are sequences of one-character strings, so that split,   *)
(* strip and format are computed character by character.                   *)
(***************************************************************************)
EXTENDS Integers, Sequences, FiniteSets, TLC

VARIABLES
    dicts,      \* ReferenceDict objects alive: object id -> its _dict
    lastOp,     \* the last mapping operation and how it ended
    keyfile,    \* lines of the key file last written by write()
    snapshot,   \* the _dict that write() serialized into keyfile
    ctor,       \* the last ReferenceDict(...) call: its arguments and its end
    call,       \* the last call into pbhla.dictionary: arguments and end
    seqfile,    \* the records of the sequence file orient_sequences is given
    alnfile,    \* the alignment records for that file, supplied or aligned
    files,      \* output path -> the file there, if any, and its records
    orient      \* the orient_sequences calls made: the last one and its work

dictVars == <<dicts, lastOp, keyfile, snapshot>>
orientVars == <<seqfile, alnfile, files, orient>>
vars == <<dicts, lastOp, keyfile, snapshot, ctor, call, seqfile, alnfile, files, orient>>

(***************************************************************************)
(* Python string primitives                                                *)
(***************************************************************************)

\* Characters str.split() and str.strip() treat as whitespace.
Whitespace == {" "}

\* s[i:] for a 1-based index into a sequence.
Drop(s, i) == SubSeq(s, i, Len(s))

\* str.lstrip()
RECURSIVE LStrip(_)
LStrip(s) ==
    IF s # <<>> /\ Head(s) \in Whitespace THEN LStrip(Tail(s)) ELSE s

\* str.rstrip()
RECURSIVE RStrip(_)
RStrip(s) ==
    IF s # <<>> /\ s[Len(s)] \in Whitespace
    THEN RStrip(SubSeq(s, 1, Len(s) - 1))
    ELSE s

\* str.strip()
Strip(s) == RStrip(LStrip(s))

\* The longest prefix of s holding no character of the set seps.
RECURSIVE TakeUntil(_, _)
TakeUntil(s, seps) ==
    IF s = <<>> \/ Head(s) \in seps
    THEN <<>>
    ELSE <<Head(s)>> \o TakeUntil(Tail(s), seps)

\* str.split(): the maximal runs of non-whitespace characters, in order.
RECURSIVE Split(_)
Split(s) ==
    LET t == LStrip(s)
        w == TakeUntil(t, Whitespace)
    IN  IF t = <<>> THEN <<>>
        ELSE <<w>> \o Split(Drop(t, Len(w) + 1))

\* str.split(sep)[0]: the field before the first sep (all of s without one).
FirstField(s, sep) == TakeUntil(s, {sep})

\* str.split(sep): every field, empty ones included.
RECURSIVE SplitOn(_, _)
SplitOn(s, sep) ==
    LET f == TakeUntil(s, {sep})
    IN  IF Len(f) = Len(s) THEN <<f>>
        ELSE <<f>> \o SplitOn(Drop(s, Len(f) + 2), sep)

\* re.search(pat, s) for a literal pattern: pat occurs somewhere in s.
Contains(s, pat) ==
    \E i \in 1..(Len(s) - Len(pat) + 1) : SubSeq(s, i, i + Len(pat) - 1) = pat

\* '{0} {1}'.format(a, b)
Format2(a, b) == a \o <<" ">> \o b

(***************************************************************************)
(* Python dict primitives                                                  *)
(***************************************************************************)

EmptyDict == [k \in {} |-> <<>>]

\* d[k] = v on a built-in dict: insert or overwrite.
DictPut(d, k, v) == [x \in DOMAIN d \cup {k} |-> IF x = k THEN v ELSE d[x]]

\* del d[k] on a built-in dict holding k.
DictDel(d, k) == [x \in DOMAIN d \ {k} |-> d[x]]

\* Every order in which iterating a dict may yield the keys of d.
Orders(d) ==
    LET n == Cardinality(DOMAIN d)
    IN  {o \in [1..n -> DOMAIN d] : \A i, j \in 1..n : i # j => o[i] # o[j]}

(***************************************************************************)
(* ReferenceDict: the mapping interface                                    *)
(***************************************************************************)

\* ReferenceDict.__setitem__ without its duplicate check.
SetItemOverwrite(d, key, value) == [outcome |-> "ok", dict |-> DictPut(d, key, value)]

\* ReferenceDict.__setitem__: the outcome and the _dict afterwards.
SetItem(d, key, value) ==
    IF key \in DOMAIN d
    THEN [outcome |-> "KeyError", dict |-> d]
    ELSE [outcome |-> "ok", dict |-> DictPut(d, key, value)]

\* ReferenceDict.__delitem__: del on a missing key raises KeyError.
DelItem(d, key) ==
    IF key \in DOMAIN d
    THEN [outcome |-> "ok", dict |-> DictDel(d, key)]
    ELSE [outcome |-> "KeyError", dict |-> d]

(***************************************************************************)
(* ReferenceDict: construction                                             *)
(***************************************************************************)

\* File extensions, as the characters input_file.split('.')[-1] compares.
S_fofn == <<"f", "o", "f", "n">>
S_txt == <<"t", "x", "t">>
S_m1 == <<"m", "1">>
S_sam == <<"s", "a", "m">>

\* The optional reference argument: None, or a mapping.
NoReference == [given |-> FALSE, map |-> EmptyDict]
Reference(m) == [given |-> TRUE, map |-> m]

\* Python truth of the reference argument in `if reference:`; None and an
\* empty mapping are both false.
Truthy(reference) == reference.given /\ DOMAIN reference.map # {}

\* reference[key]: the value, or KeyError.
Lookup(m, key) ==
    IF key \in DOMAIN m
    THEN [outcome |-> "ok", value |-> m[key]]
    ELSE [outcome |-> "KeyError", value |-> <<>>]

\* The sequence files a reference manifest may list: path -> record names.
FastaFiles ==
    (<<"A">> :> << <<"a", "_", "x", " ", "d">>, <<"b">> >>)
    @@ (<<"B">> :> << <<"a", "_", "y">> >>)
    @@ (<<"C">> :> << <<"c", "_", "_", "x">>, <<"c", "_", "_", "y">> >>)
    @@ (<<"D">> :> << <<"e", "_", "x">>, <<"e", "_", "y">> >>)
    @@ (<<"E">> :> << >>)
    @@ (<<"F">> :> << <<"b">> >>)

\* The key parse_reference_fofn derives from a record name, ignoring '__'.
FofnKeyNoMarker(name) == FirstField(Split(name)[1], "_")

\* The key parse_reference_fofn derives from a record name.
FofnKey(name) ==
    LET first == Split(name)[1]
    IN  IF ~Contains(first, <<"_", "_">>) THEN FirstField(first, "_") ELSE first

\* The inner loop of parse_reference_fofn over the records of one file.
RECURSIVE FofnRecords(_, _, _)
FofnRecords(names, locus, d) ==
    IF names = <<>> THEN [outcome |-> "ok", dict |-> d]
    ELSE LET r == SetItem(d, FofnKey(Head(names)), locus)
         IN  IF r.outcome # "ok" THEN r
             ELSE FofnRecords(Tail(names), locus, r.dict)

\* ReferenceDict.parse_reference_fofn over the lines of the manifest.
RECURSIVE parse_reference_fofn(_, _)
parse_reference_fofn(lines, d) ==
    IF lines = <<>> THEN [outcome |-> "ok", dict |-> d]
    ELSE LET toks == Split(Strip(Head(lines)))
         IN  IF Len(toks) # 2 THEN [outcome |-> "ValueError", dict |-> d]
             ELSE LET r == FofnRecords(FastaFiles[toks[1]], toks[2], d)
                  IN  IF r.outcome # "ok" THEN r
                      ELSE parse_reference_fofn(Tail(lines), r.dict)

\* ReferenceDict.parse_locus_key over the lines of the key file.
RECURSIVE parse_locus_key(_, _)
parse_locus_key(lines, d) ==
    IF lines = <<>> THEN [outcome |-> "ok", dict |-> d]
    ELSE LET toks == Split(Strip(Head(lines)))
         IN  IF Len(toks) # 2 THEN [outcome |-> "ValueError", dict |-> d]
             ELSE LET r == SetItem(d, toks[1], toks[2])
                  IN  IF r.outcome # "ok" THEN r
                      ELSE parse_locus_key(Tail(lines), r.dict)

\* ReferenceDict.parse_blasr_file and parse_sam_file: the same loop over the
\* (query, target) pairs their readers yield.
RECURSIVE parse_alignments(_, _, _)
parse_alignments(hits, reference, d) ==
    IF hits = <<>> THEN [outcome |-> "ok", dict |-> d]
    ELSE LET hit == Head(hits)
             found == Lookup(reference.map, hit.tname)
         IN  IF Truthy(reference) /\ found.outcome # "ok"
             THEN [outcome |-> "KeyError", dict |-> d]
             ELSE LET r == SetItem(d, hit.qname,
                                   IF Truthy(reference) THEN found.value
                                   ELSE hit.tname)
                  IN  IF r.outcome # "ok" THEN r
                      ELSE parse_alignments(Tail(hits), reference, r.dict)

\* self.file_type = self.input_file.split('.')[-1]
FileType(input_file) ==
    LET parts == SplitOn(input_file, ".") IN parts[Len(parts)]

\* ReferenceDict.validate_input with every extension accepted.
ValidateAnything(file_type) == "ok"

\* ReferenceDict.validate_input
validate_input(file_type) ==
    IF file_type \in {S_fofn, S_txt, S_m1, S_sam} THEN "ok" ELSE "ValueError"

\* The four `if` statements of ReferenceDict.run, in order.
Dispatch ==
    << [type |-> S_fofn, parser |-> "parse_reference_fofn"],
       [type |-> S_txt, parser |-> "parse_locus_key"],
       [type |-> S_m1, parser |-> "parse_blasr_file"],
       [type |-> S_sam, parser |-> "parse_sam_file"] >>

\* One parser on the input file's content, from the _dict d.
RunParser(parser, content, reference, d) ==
    CASE parser = "parse_reference_fofn" -> parse_reference_fofn(content, d)
      [] parser = "parse_locus_key" -> parse_locus_key(content, d)
      [] OTHER -> parse_alignments(content, reference, d)

\* ReferenceDict.run from its i-th `if` on: st carries the _dict, the parsers
\* run so far and how many times the input file was opened.
RECURSIVE run(_, _, _, _, _)
run(i, file_type, content, reference, st) ==
    IF i > Len(Dispatch) \/ st.outcome # "ok" THEN st
    ELSE IF file_type # Dispatch[i].type
         THEN run(i + 1, file_type, content, reference, st)
         ELSE LET r == RunParser(Dispatch[i].parser, content, reference, st.dict)
              IN  run(i + 1, file_type, content, reference,
                      [outcome |-> r.outcome,
                       dict |-> r.dict,
                       parsers |-> Append(st.parsers, Dispatch[i].parser),
                       opened |-> st.opened + 1])

\* ReferenceDict.__init__: how construction ends (an outcome other than "ok"
\* is the exception that leaves the caller without an object), the _dict at
\* that point, the parsers that ran and the opens of the input file.
Construct(input_file, content, reference) ==
    LET file_type == FileType(input_file)
        st0 == [outcome |-> "ok", dict |-> EmptyDict, parsers |-> <<>>, opened |-> 0]
    IN  IF validate_input(file_type) # "ok"
        THEN [st0 EXCEPT !.outcome = validate_input(file_type)]
        ELSE run(1, file_type, content, reference, st0)

\* ReferenceDict.write printing the locus before the sequence name.
WriteLinesSwapped(d, o) == [i \in 1..Len(o) |-> Format2(d[o[i]], o[i])]

\* ReferenceDict.write: the lines printed when iteration yields the keys in
\* the order o.
WriteLines(d, o) == [i \in 1..Len(o) |-> Format2(o[i], d[o[i]])]

(***************************************************************************)
(* pbhla.dictionary: the create_*_reference folds                          *)
(***************************************************************************)

\* The delimiter that starts a pipeline-added suffix of a sequence name.
SuffixDelimiter == "|"

\* pbhla.utils.get_base_sequence_name: the name up to, and without, its
\* pipeline-added suffix.
get_base_sequence_name(name) == TakeUntil(name, {SuffixDelimiter})

\* os.path.basename
Basename(path) == LET parts == SplitOn(path, "/") IN parts[Len(parts)]

Raised(outcome, msg, results) ==
    [outcome |-> outcome, msg |-> msg, results |-> results]

Returned(results) == [outcome |-> "ok", msg |-> "", results |-> results]

DuplicateMsg == "Duplicate sequence ids found!"

\* create_amp_assem_reference from the rest of the records on, results so far.
RECURSIVE create_amp_assem_reference(_, _, _)
create_amp_assem_reference(records, reference, results) ==
    IF records = <<>> THEN Returned(results)
    ELSE LET qname == get_base_sequence_name(Head(records).qname)
             fields == SplitOn(qname, "_")
             locus == fields[2]
             found == Lookup(reference.map, locus)
         IN  IF Len(fields) < 2 THEN Raised("IndexError", "", results)
             ELSE IF qname \in DOMAIN results
             THEN Raised("KeyError", DuplicateMsg, results)
             ELSE IF Truthy(reference) /\ found.outcome # "ok"
             THEN Raised("KeyError", "lookup", results)
             ELSE create_amp_assem_reference(
                      Tail(records), reference,
                      DictPut(results, qname,
                              IF Truthy(reference) THEN found.value ELSE locus))

\* create_m1_reference from the rest of the records on, results so far.
RECURSIVE create_m1_reference(_, _, _)
create_m1_reference(records, reference, results) ==
    IF records = <<>> THEN Returned(results)
    ELSE LET qname == get_base_sequence_name(Head(records).qname)
             tname == get_base_sequence_name(Head(records).tname)
             found == Lookup(reference.map, tname)
         IN  IF qname \in DOMAIN results
             THEN Raised("KeyError", DuplicateMsg, results)
             ELSE IF Truthy(reference) /\ found.outcome # "ok"
             THEN Raised("KeyError", "lookup", results)
             ELSE create_m1_reference(
                      Tail(records), reference,
                      DictPut(results, qname,
                              IF Truthy(reference) THEN found.value ELSE tname))

\* create_sam_reference from the rest of the records on, results so far.
RECURSIVE create_sam_reference(_, _, _)
create_sam_reference(records, reference, results) ==
    IF records = <<>> THEN Returned(results)
    ELSE LET qname == Head(records).qname
             name == get_base_sequence_name(Head(records).tname)
             found == Lookup(reference.map, name)
         IN  IF qname \in DOMAIN results
             THEN Raised("KeyError", DuplicateMsg, results)
             ELSE IF Truthy(reference) /\ found.outcome # "ok"
             THEN Raised("KeyError", "lookup", results)
             ELSE create_sam_reference(
                      Tail(records), reference,
                      DictPut(results, qname,
                              IF Truthy(reference) THEN found.value ELSE name))

\* int(record.nmis) + int(record.nins) + int(record.ndel)
DiffCount(record) == record.nmis + record.nins + record.ndel

\* The test `diffs[qname] > diff_count` taken as >=.
ReplacesOnTie(best, diff_count) == best >= diff_count

\* The test `diffs[qname] > diff_count` of create_m5_reference and
\* filter_m5_file: the new record replaces the one kept.
Replaces(best, diff_count) == best > diff_count

\* create_m5_reference from the rest of the records on.
RECURSIVE create_m5_reference(_, _, _)
create_m5_reference(records, results, diffs) ==
    IF records = <<>> THEN Returned(results)
    ELSE LET record == Head(records)
             qname == get_base_sequence_name(record.qname)
             tname == get_base_sequence_name(record.tname)
             diff_count == DiffCount(record)
             take == \/ qname \notin DOMAIN diffs
                     \/ Replaces(diffs[qname], diff_count)
         IN  IF take
             THEN create_m5_reference(Tail(records),
                                      DictPut(results, qname, tname),
                                      DictPut(diffs, qname, diff_count))
             ELSE create_m5_reference(Tail(records), results, diffs)

\* The selection loop of filter_m5_file from the rest of the records on.
RECURSIVE filter_m5_select(_, _, _)
filter_m5_select(records, selected, diffs) ==
    IF records = <<>> THEN selected
    ELSE LET record == Head(records)
             diff_count == DiffCount(record)
             take == \/ record.qname \notin DOMAIN diffs
                     \/ Replaces(diffs[record.qname], diff_count)
         IN  IF take
             THEN filter_m5_select(Tail(records),
                                   DictPut(selected, record.qname, record),
                                   DictPut(diffs, record.qname, diff_count))
             ELSE filter_m5_select(Tail(records), selected, diffs)

\* The inner loop of create_phased_reference over the records of one file.
RECURSIVE PhasedRecords(_, _, _)
PhasedRecords(names, contig_name, results) ==
    IF names = <<>> THEN results
    ELSE PhasedRecords(Tail(names), contig_name,
                       DictPut(results, Split(Head(names))[1], contig_name))

\* create_phased_reference from the rest of the manifest lines on.
RECURSIVE create_phased_reference(_, _)
create_phased_reference(lines, results) ==
    IF lines = <<>> THEN Returned(results)
    ELSE LET fasta_path == Strip(Head(lines))
             fasta_file == Basename(fasta_path)
             contig_name == SplitOn(fasta_file, ".")[1] \o <<"_", "c", "n", "s">>
         IN  create_phased_reference(
                 Tail(lines),
                 PhasedRecords(FastaFiles[fasta_path], contig_name, results))

\* No call into pbhla.dictionary made yet.
NoCall ==
    [called |-> FALSE, fn |-> "", records |-> <<>>, reference |-> NoReference,
     outcome |-> "ok", msg |-> "", results |-> EmptyDict, filtered_file |-> <<>>]

(***************************************************************************)
(* pbhla.sequences.orientation                                             *)
(***************************************************************************)

S_fasta == <<"f", "a", "s", "t", "a">>
S_fastq == <<"f", "a", "s", "t", "q">>

\* pbhla.filenames.get_file_type: the type a file's extension names.
get_file_type(path) == LET parts == SplitOn(path, ".") IN parts[Len(parts)]

\* '.'.join(fields)
RECURSIVE JoinDot(_)
JoinDot(fields) ==
    IF fields = <<>> THEN <<>>
    ELSE IF Len(fields) = 1 THEN fields[1]
    ELSE fields[1] \o <<".">> \o JoinDot(Tail(fields))

\* _get_output_file
get_output_file(input_file) ==
    LET parts == SplitOn(input_file, ".")
        basename == JoinDot(SubSeq(parts, 1, Len(parts) - 1))
    IN  basename \o <<".", "o", "r", "i", "e", "n", "t", "e", "d", ".">>
                 \o get_file_type(input_file)

\* _get_output_type with every extension accepted.
OutputTypeAnything(output_file) ==
    [outcome |-> "ok", type |-> get_file_type(output_file)]

\* _get_output_type
get_output_type(output_file) ==
    LET output_type == get_file_type(output_file)
    IN  IF output_type \in {S_fasta, S_fastq}
        THEN [outcome |-> "ok", type |-> output_type]
        ELSE [outcome |-> "TypeError", type |-> output_type]

\* No file at a path.
NoFile == [exists |-> FALSE, records |-> <<>>]

\* pbhla.utils.valid_file: a file is there and is not empty.
valid_file(fs, path) == fs[path].exists /\ fs[path].records # <<>>

\* _identify_reversed_sequences keeping the hits whose strands agree.
IdentifySameStrand(blasr_records) ==
    {blasr_records[i].qname :
        i \in {j \in 1..Len(blasr_records) :
                  blasr_records[j].qstrand = blasr_records[j].tstrand}}

\* _identify_reversed_sequences
identify_reversed_sequences(blasr_records) ==
    {blasr_records[i].qname :
        i \in {j \in 1..Len(blasr_records) :
                  blasr_records[j].qstrand # blasr_records[j].tstrand}}

\* The complementary base.
Complement(base) ==
    CASE base = "A" -> "T"
      [] base = "T" -> "A"
      [] base = "C" -> "G"
      [] base = "G" -> "C"
      [] OTHER -> base

Reverse(s) == [i \in 1..Len(s) |-> s[Len(s) + 1 - i]]

\* pbhla.utilities.reverse_complement: the sequence reversed and complemented,
\* the quality string reversed with it, the name kept.
reverse_complement(record) ==
    [name |-> record.name,
     sequence |-> [i \in 1..Len(record.sequence) |->
                      Complement(record.sequence[Len(record.sequence) + 1 - i])],
     quality |-> Reverse(record.quality)]

\* _reverse_records
reverse_records(records, reversed_seqs) ==
    [i \in 1..Len(records) |->
        IF Split(records[i].name)[1] \in reversed_seqs
        THEN reverse_complement(records[i])
        ELSE records[i]]

\* _parse_input_records: the records of the input file, or TypeError.
parse_input_records(input_file, content) ==
    IF get_file_type(input_file) \in {S_fasta, S_fastq}
    THEN [outcome |-> "ok", records |-> content]
    ELSE [outcome |-> "TypeError", records |-> <<>>]

\* The test `if valid_file( output_file ):` never taken.
ExistingOutputIgnored(fs, output_file) == FALSE

\* The test `if valid_file( output_file ):` of orient_sequences.
ExistingOutputFound(fs, output_file) == valid_file(fs, output_file)

\* pbhla.utils.check_output_file: the output was written and is not empty.
check_output_file(fs, output_file) ==
    IF valid_file(fs, output_file) THEN "returned" ELSE "OutputNotProduced"

\* orient_sequences: how the call ends, the path it works on, the steps of
\* work it took in order, and the output files afterwards.  input is the
\* content of input_file and alignment the evidence for it, read from
\* alignment_file when one is supplied and produced by the aligner otherwise.
orient_sequences(input_file, alignment_given, output_arg, input, alignment, fs) ==
    LET output_file == IF output_arg # <<>> THEN output_arg
                       ELSE get_output_file(input_file)
        output_type == get_output_type(output_file)
        aligned == IF alignment_given THEN <<>> ELSE <<"align">>
        reversed_seqs == identify_reversed_sequences(alignment)
        parsed == parse_input_records(input_file, input)
        reversed_records == reverse_records(parsed.records, reversed_seqs)
        written == [fs EXCEPT ![output_file] =
                       [exists |-> TRUE, records |-> reversed_records]]
    IN  IF output_type.outcome # "ok"
        THEN [outcome |-> "TypeError", output_file |-> output_file,
              work |-> <<>>, files |-> fs]
        ELSE IF ExistingOutputFound(fs, output_file)
        THEN [outcome |-> "returned", output_file |-> output_file,
              work |-> <<>>, files |-> fs]
        ELSE IF parsed.outcome # "ok"
        THEN [outcome |-> "TypeError", output_file |-> output_file,
              work |-> aligned \o <<"read_alignment">>, files |-> fs]
        ELSE [outcome |-> check_output_file(written, output_file),
              output_file |-> output_file,
              work |-> aligned \o <<"read_alignment", "read_input", "write">>,
              files |-> written]

\* No orient_sequences call made yet.
NoOrient ==
    [n |-> 0, input_file |-> <<>>, alignment_given |-> FALSE,
     output_arg |-> <<>>, output_file |-> <<>>, outcome |-> "ok",
     work |-> <<>>, aligns |-> 0, writes |-> 0]

\* The orientation corrector not in use.
OrientIdle ==
    /\ seqfile = <<>>
    /\ alnfile = <<>>
    /\ files = [p \in {} |-> NoFile]
    /\ orient = NoOrient

(***************************************************************************)
(* The mapping under insertions and deletions                              *)
(***************************************************************************)

\* Keys and values the callers insert; some hold whitespace.
DictKeys == {<<"a">>, <<" ", "a">>, <<"b">>, <<"a", " ", "b">>}
DictValues == {<<"x">>, <<"x", " ", "y">>}

\* Every _dict over DictKeys and DictValues.
AllDicts ==
    UNION {[K -> DictValues] : K \in SUBSET DictKeys}

\* No ReferenceDict(...) call made yet.
NoCtor ==
    [called |-> FALSE, input_file |-> <<>>, content |-> <<>>,
     reference |-> NoReference, outcome |-> "ok", dict |-> EmptyDict,
     parsers |-> <<>>, opened |-> 0]

NoOp == [op |-> "none", obj |-> "orig", key |-> <<>>, value |-> <<>>, outcome |-> "ok"]

\* A ReferenceDict built from an empty key file: nothing written yet.
InitDict ==
    /\ dicts = [o \in {"orig"} |-> EmptyDict]
    /\ lastOp = NoOp
    /\ keyfile = [exists |-> FALSE, lines |-> <<>>]
    /\ snapshot = EmptyDict
    /\ ctor = NoCtor
    /\ call = NoCall
    /\ OrientIdle

\* d[key] = value on the object obj.
DoSetItem(obj, key, value) ==
    LET r == SetItem(dicts[obj], key, value)
    IN  /\ dicts' = [dicts EXCEPT ![obj] = r.dict]
        /\ lastOp' = [op |-> "setitem", obj |-> obj, key |-> key,
                      value |-> value, outcome |-> r.outcome]
        /\ UNCHANGED <<keyfile, snapshot, ctor, call, orientVars>>

\* del d[key] on the object obj.
DoDelItem(obj, key) ==
    LET r == DelItem(dicts[obj], key)
    IN  /\ dicts' = [dicts EXCEPT ![obj] = r.dict]
        /\ lastOp' = [op |-> "delitem", obj |-> obj, key |-> key,
                      value |-> <<>>, outcome |-> r.outcome]
        /\ UNCHANGED <<keyfile, snapshot, ctor, call, orientVars>>

NextDict ==
    \/ \E k \in DictKeys, v \in DictValues : DoSetItem("orig", k, v)
    \/ \E k \in DictKeys : DoDelItem("orig", k)

SpecDict == InitDict /\ [][NextDict]_vars

(***************************************************************************)
(* write() and reloading the key file                                      *)
(***************************************************************************)

\* The name under which the key file is written and reloaded.
KeyFileName == <<"k", ".", "t", "x", "t">>

\* A ReferenceDict in any state insertions and deletions reach.
InitRoundTrip ==
    /\ dicts \in {[o \in {"orig"} |-> d] : d \in AllDicts}
    /\ lastOp = NoOp
    /\ keyfile = [exists |-> FALSE, lines |-> <<>>]
    /\ snapshot = EmptyDict
    /\ ctor = NoCtor
    /\ call = NoCall
    /\ OrientIdle

\* d.write(KeyFileName), with iteration yielding the keys in the order o.
DoWrite(o) ==
    /\ keyfile' = [exists |-> TRUE, lines |-> WriteLines(dicts["orig"], o)]
    /\ snapshot' = dicts["orig"]
    /\ lastOp' = [NoOp EXCEPT !.op = "write"]
    /\ UNCHANGED <<dicts, ctor, call, orientVars>>

\* ReferenceDict(KeyFileName): a new object when construction returns.
DoReload ==
    /\ keyfile.exists
    /\ LET r == Construct(KeyFileName, keyfile.lines, NoReference)
       IN  /\ dicts' = IF r.outcome = "ok"
                       THEN [o \in {"orig", "reload"} |->
                                IF o = "reload" THEN r.dict ELSE dicts["orig"]]
                       ELSE [o \in {"orig"} |-> dicts["orig"]]
           /\ lastOp' = [NoOp EXCEPT !.op = "reload", !.obj = "reload",
                                     !.outcome = r.outcome]
    /\ UNCHANGED <<keyfile, snapshot, ctor, call, orientVars>>

NextRoundTrip ==
    \/ \E o \in Orders(dicts["orig"]) : DoWrite(o)
    \/ DoReload
    \/ \E k \in DictKeys, v \in DictValues :
           "reload" \in DOMAIN dicts /\ DoSetItem("reload", k, v)

SpecRoundTrip == InitRoundTrip /\ [][NextRoundTrip]_vars

(***************************************************************************)
(* Constructing a ReferenceDict from an input file                         *)
(***************************************************************************)

\* Longest manifest, key file or alignment file read by a construction.
MaxLines == 3

\* Every sequence over S of length at most n.
SeqsUpTo(S, n) == UNION {[1..k -> S] : k \in 0..n}

Loci == {<<"L", "1">>, <<"L", "2">>}

\* Lines of a reference manifest: "<path> <locus>", and one line without a
\* locus column.
ManifestLines ==
    {Format2(path, locus) : path \in DOMAIN FastaFiles, locus \in Loci}
    \cup {<<"A">>}

\* Lines of a key file: "<id> <locus>", one indented, one without a locus.
KeyLines ==
    {Format2(id, locus) : id \in {<<"a">>, <<"b">>}, locus \in Loci}
    \cup {<<" ", "a", " ", "L", "1", " ">>, <<"a">>}

\* (query, target) pairs of an alignment summary or SAM file.
Hits ==
    [qname : {<<"q", "_", "A">>, <<"q", "_", "A", "|", "1">>, <<"r">>},
     tname : {<<"A">>, <<"A", "|", "1">>, <<"B">>}]

\* Reference arguments: None, an empty mapping, and two that hold loci.
References ==
    {NoReference,
     Reference(EmptyDict),
     Reference(<<"A">> :> <<"L", "1">>),
     Reference((<<"A">> :> <<"L", "1">>) @@ (<<"B">> :> <<"L", "2">>))}

\* Input files by name, each with the contents it may hold.
InputsOf(input_file) ==
    LET t == FileType(input_file)
    IN  CASE t = S_fofn -> SeqsUpTo(ManifestLines, MaxLines)
          [] t = S_txt -> SeqsUpTo(KeyLines, MaxLines)
          [] t \in {S_m1, S_sam} -> SeqsUpTo(Hits, MaxLines)
          [] OTHER -> {<<>>, <<Format2(<<"a">>, <<"L", "1">>)>>}

InputFiles ==
    {<<"r", ".", "f", "o", "f", "n">>,
     <<"k", ".", "t", "x", "t">>,
     <<"k", ".", "v", "2", ".", "t", "x", "t">>,
     <<"a", ".", "m", "1">>,
     <<"a", ".", "s", "a", "m">>,
     <<"a", ".", "m", "5">>,
     <<"k", ".", "t", "x", "t", ".", "b", "a", "k">>,
     <<"k", "e", "y", "s">>}

InitConstruct ==
    /\ dicts = [o \in {"orig"} |-> EmptyDict]
    /\ lastOp = NoOp
    /\ keyfile = [exists |-> FALSE, lines |-> <<>>]
    /\ snapshot = EmptyDict
    /\ ctor = NoCtor
    /\ call = NoCall
    /\ OrientIdle

\* ReferenceDict(input_file, reference) on a file holding content; one
\* construction per behaviour.
DoConstruct(input_file, content, reference) ==
    LET r == Construct(input_file, content, reference)
    IN  /\ ~ctor.called /\ ~call.called
        /\ ctor' = [called |-> TRUE, input_file |-> input_file,
                    content |-> content, reference |-> reference,
                    outcome |-> r.outcome, dict |-> r.dict,
                    parsers |-> r.parsers, opened |-> r.opened]
        /\ UNCHANGED <<dictVars, call, orientVars>>

NextConstruct ==
    /\ ~ctor.called
    /\ \E input_file \in InputFiles :
           \E content \in InputsOf(input_file) :
               \E reference \in
                     IF FileType(input_file) \in {S_m1, S_sam}
                     THEN References ELSE {NoReference} :
                   DoConstruct(input_file, content, reference)

SpecConstruct == InitConstruct /\ [][NextConstruct]_vars

(***************************************************************************)
(* Calls into pbhla.dictionary                                             *)
(***************************************************************************)

\* Longest alignment stream read by one call.
MaxRecords == 4

InitCall ==
    /\ dicts = [o \in {"orig"} |-> EmptyDict]
    /\ lastOp = NoOp
    /\ keyfile = [exists |-> FALSE, lines |-> <<>>]
    /\ snapshot = EmptyDict
    /\ ctor = NoCtor
    /\ call = NoCall
    /\ OrientIdle

\* What a call leaves behind; one call per behaviour.
Called(fn, records, reference, r, filtered_file) ==
    /\ ~call.called /\ ~ctor.called
    /\ call' = [called |-> TRUE, fn |-> fn, records |-> records,
                reference |-> reference, outcome |-> r.outcome, msg |-> r.msg,
                results |-> r.results, filtered_file |-> filtered_file]
    /\ UNCHANGED <<dictVars, ctor, orientVars>>

DoCreateAmpAssem(records, reference) ==
    Called("create_amp_assem_reference", records, reference,
           create_amp_assem_reference(records, reference, EmptyDict), <<>>)

DoCreateM1(records, reference) ==
    Called("create_m1_reference", records, reference,
           create_m1_reference(records, reference, EmptyDict), <<>>)

DoCreateSam(records, reference) ==
    Called("create_sam_reference", records, reference,
           create_sam_reference(records, reference, EmptyDict), <<>>)

\* The single-best-hit resolvers, and ReferenceDict in its m1 and sam modes.
CreateAmpAssem ==
    /\ ~call.called /\ ~ctor.called
    /\ \E records \in SeqsUpTo(Hits, MaxLines), reference \in References :
           DoCreateAmpAssem(records, reference)

CreateM1 ==
    /\ ~call.called /\ ~ctor.called
    /\ \E records \in SeqsUpTo(Hits, MaxLines), reference \in References :
           DoCreateM1(records, reference)

CreateSam ==
    /\ ~call.called /\ ~ctor.called
    /\ \E records \in SeqsUpTo(Hits, MaxLines), reference \in References :
           DoCreateSam(records, reference)

\* ReferenceDict(input_file, reference) in its m1 and sam modes.
ConstructFromAlignments ==
    /\ ~call.called /\ ~ctor.called
    /\ \E input_file \in {f \in InputFiles : FileType(f) \in {S_m1, S_sam}} :
           \E content \in InputsOf(input_file), reference \in References :
               DoConstruct(input_file, content, reference)

NextSingleHit ==
    \/ CreateAmpAssem
    \/ CreateM1
    \/ CreateSam
    \/ ConstructFromAlignments

SpecSingleHit == InitCall /\ [][NextSingleHit]_vars

\* Alignment records with edit counts: two queries, one of them also under a
\* decorated name; two of the targets tie at three edits.
M5Counts ==
    {[tname |-> <<"t", "1">>, nmis |-> 5, nins |-> 0, ndel |-> 0],
     [tname |-> <<"t", "2">>, nmis |-> 1, nins |-> 1, ndel |-> 1],
     [tname |-> <<"t", "3", "|", "c">>, nmis |-> 3, nins |-> 0, ndel |-> 0],
     [tname |-> <<"t", "1">>, nmis |-> 4, nins |-> 1, ndel |-> 2]}

M5Record(qname, c) ==
    [qname |-> qname, tname |-> c.tname, nmis |-> c.nmis, nins |-> c.nins,
     ndel |-> c.ndel]

M5Records ==
    {M5Record(<<"q">>, c) : c \in M5Counts}
    \cup {M5Record(<<"q", "|", "1">>, c) : c \in {x \in M5Counts : DiffCount(x) <= 3}}
    \cup {M5Record(<<"r">>, c) : c \in {x \in M5Counts : DiffCount(x) >= 5}}

DoCreateM5(records) ==
    Called("create_m5_reference", records, NoReference,
           create_m5_reference(records, EmptyDict, EmptyDict), <<>>)

\* filter_m5_file, with selected.itervalues() yielding in the key order o.
DoFilterM5(records, o) ==
    LET selected == filter_m5_select(records, EmptyDict, EmptyDict)
    IN  /\ o \in Orders(selected)
        /\ Called("filter_m5_file", records, NoReference, Returned(selected),
                  [i \in 1..Len(o) |-> selected[o[i]]])

CreateM5 ==
    /\ ~call.called
    /\ \E records \in SeqsUpTo(M5Records, MaxRecords) : DoCreateM5(records)

FilterM5 ==
    /\ ~call.called
    /\ \E records \in SeqsUpTo(M5Records, MaxRecords) :
           \E o \in Orders(filter_m5_select(records, EmptyDict, EmptyDict)) :
               DoFilterM5(records, o)

NextM5 ==
    \/ CreateM5
    \/ FilterM5

SpecM5 == InitCall /\ [][NextM5]_vars

DoCreatePhased(lines) ==
    Called("create_phased_reference", lines, NoReference,
           create_phased_reference(lines, EmptyDict), <<>>)

NextPhased ==
    /\ ~call.called
    /\ \E lines \in SeqsUpTo(DOMAIN FastaFiles, MaxLines) : DoCreatePhased(lines)

SpecPhased == InitCall /\ [][NextPhased]_vars

(***************************************************************************)
(* Calls of orient_sequences                                               *)
(***************************************************************************)

\* Most orient_sequences calls in one behaviour.
MaxCalls == 2

\* Longest sequence file and longest alignment file oriented.
MaxSeqs == 2
MaxAlignments == 2

I_fasta == <<"i", ".", "f", "a", "s", "t", "a">>
I_txt == <<"i", ".", "t", "x", "t">>
O_fastq == <<"o", ".", "f", "a", "s", "t", "q">>
O_txt == <<"o", ".", "t", "x", "t">>

InputPaths == {I_fasta, I_txt}

\* The output_file argument: <<>> stands for None.
OutputArgs == {<<>>, O_fastq, O_txt}

\* Every path a call may work on.
OutputPaths == {get_output_file(i) : i \in InputPaths} \cup (OutputArgs \ {<<>>})

Rec1 ==
    [name |-> <<"s", "1", " ", "d">>, sequence |-> <<"A", "A", "C", "G">>,
     quality |-> <<"!", "!", "#", "#">>]
Rec2 == [name |-> <<"s", "2">>, sequence |-> <<"A", "T">>, quality |-> <<"#", "!">>]
Rec3 == [name |-> <<"s", "1">>, sequence |-> <<"C", "C">>, quality |-> <<>>]

SeqRecords == {Rec1, Rec2, Rec3}

AlnRecords ==
    [qname : {<<"s", "1">>, <<"s", "2">>}, qstrand : {"+", "-"}, tstrand : {"+", "-"}]

\* One orient_sequences call, the n-th of at most limit.
DoOrient(limit, input_file, alignment_given, output_arg) ==
    LET r == orient_sequences(input_file, alignment_given, output_arg,
                              seqfile, alnfile, files)
        count(step) == Cardinality({i \in 1..Len(r.work) : r.work[i] = step})
    IN  /\ orient.n < limit
        /\ files' = r.files
        /\ orient' = [n |-> orient.n + 1, input_file |-> input_file,
                      alignment_given |-> alignment_given,
                      output_arg |-> output_arg, output_file |-> r.output_file,
                      outcome |-> r.outcome, work |-> r.work,
                      aligns |-> orient.aligns + count("align"),
                      writes |-> orient.writes + count("write")]
        /\ UNCHANGED <<dictVars, ctor, call, seqfile, alnfile>>

\* Any sequence file and alignment evidence, and no output written yet.
InitReverse ==
    /\ dicts = [o \in {"orig"} |-> EmptyDict]
    /\ lastOp = NoOp
    /\ keyfile = [exists |-> FALSE, lines |-> <<>>]
    /\ snapshot = EmptyDict
    /\ ctor = NoCtor
    /\ call = NoCall
    /\ seqfile \in SeqsUpTo(SeqRecords, MaxSeqs)
    /\ alnfile \in SeqsUpTo(AlnRecords, MaxAlignments)
    /\ files = [p \in OutputPaths |-> NoFile]
    /\ orient = NoOrient

\* orient_sequences(I_fasta, ...), once, on that sequence file.
OrientOnce ==
    \E alignment_given \in BOOLEAN, output_arg \in {<<>>, O_fastq} :
        DoOrient(1, I_fasta, alignment_given, output_arg)

NextReverse == OrientOnce

SpecReverse == InitReverse /\ [][NextReverse]_vars

\* An empty or a two-record sequence file, and output files left at some of
\* the paths by earlier runs.
InitOrient ==
    /\ dicts = [o \in {"orig"} |-> EmptyDict]
    /\ lastOp = NoOp
    /\ keyfile = [exists |-> FALSE, lines |-> <<>>]
    /\ snapshot = EmptyDict
    /\ ctor = NoCtor
    /\ call = NoCall
    /\ seqfile \in {<<>>, <<Rec1, Rec2>>}
    /\ alnfile = <<[qname |-> <<"s", "1">>, qstrand |-> "+", tstrand |-> "-"]>>
    /\ files \in [OutputPaths -> {NoFile, [exists |-> TRUE, records |-> <<Rec2>>]}]
    /\ orient = NoOrient

\* orient_sequences called again and again.
OrientSequences ==
    \E input_file \in InputPaths, alignment_given \in BOOLEAN,
       output_arg \in OutputArgs :
        DoOrient(MaxCalls, input_file, alignment_given, output_arg)

NextOrient == OrientSequences

SpecOrient == InitOrient /\ [][NextOrient]_vars

(***************************************************************************)
(* C1                                                                      *)
(***************************************************************************)

\* C1: inserting a key that is present raises KeyError and leaves the map as
\* it was, and no step changes the value held by a key that stays present.
C1_DuplicateInsertRejected ==
    [][\A o \in DOMAIN dicts :
          /\ (lastOp'.op = "setitem" /\ lastOp'.obj = o
              /\ lastOp'.key \in DOMAIN dicts[o])
             => (lastOp'.outcome = "KeyError" /\ dicts'[o] = dicts[o])
          /\ \A k \in DOMAIN dicts[o] \cap DOMAIN dicts'[o] :
                dicts'[o][k] = dicts[o][k]]_vars

\* A rejected attempt to give a present key another value.
C1_Witness ==
    /\ lastOp.op = "setitem"
    /\ lastOp.outcome = "KeyError"
    /\ lastOp.key \in DOMAIN dicts["orig"]
    /\ dicts["orig"][lastOp.key] # lastOp.value
    /\ Cardinality(DOMAIN dicts["orig"]) > 1

(***************************************************************************)
(* C2                                                                      *)
(***************************************************************************)

\* The key under which each of the two edit-score reducers files a record.
M5Key(fn, record) ==
    IF fn = "create_m5_reference" THEN TakeUntil(record.qname, {"|"})
    ELSE record.qname

EditScore(record) == record.nmis + record.nins + record.ndel

\* The first position in the stream, among the records of key k, whose edit
\* score is the least of that key's records.
FirstBest(fn, records, k) ==
    LET mine == {i \in 1..Len(records) : M5Key(fn, records[i]) = k}
        best == {i \in mine : \A j \in mine : EditScore(records[i]) <= EditScore(records[j])}
    IN  CHOOSE i \in best : \A j \in best : i <= j

\* C2: in edit-score reduction no error is raised, every query of the stream
\* has an entry, and the entry is that of the first record in stream order
\* carrying the query's least edit score.
C2_FirstMinimumSelected ==
    (call.called /\ call.fn \in {"create_m5_reference", "filter_m5_file"})
    => /\ call.outcome = "ok"
       /\ DOMAIN call.results =
              {M5Key(call.fn, call.records[i]) : i \in 1..Len(call.records)}
       /\ \A k \in DOMAIN call.results :
              LET first == call.records[FirstBest(call.fn, call.records, k)]
              IN  IF call.fn = "create_m5_reference"
                  THEN call.results[k] = TakeUntil(first.tname, {"|"})
                  ELSE call.results[k] = first
       /\ call.fn = "filter_m5_file"
          => {call.filtered_file[i] : i \in 1..Len(call.filtered_file)}
                 = {call.results[k] : k \in DOMAIN call.results}

\* One query with scores 5, 3, 3, 7 in stream order, the two records of score
\* three naming different targets: the first of them is the one kept.
C2_Witness ==
    /\ call.called /\ call.fn = "create_m5_reference"
    /\ Len(call.records) = 4
    /\ \A i \in 1..4 : call.records[i].qname = <<"q">>
    /\ [i \in 1..4 |-> EditScore(call.records[i])] = <<5, 3, 3, 7>>
    /\ call.records[2].tname # call.records[3].tname
    /\ call.results[<<"q">>] = call.records[2].tname

(***************************************************************************)
(* C3                                                                      *)
(***************************************************************************)

SingleHitResolvers ==
    {"create_m1_reference", "create_amp_assem_reference", "create_sam_reference"}

\* Two records of the stream whose query ids normalize to the same key.
NormalizedClash(records) ==
    \E i, j \in 1..Len(records) :
        /\ i # j
        /\ TakeUntil(records[i].qname, {"|"}) = TakeUntil(records[j].qname, {"|"})

\* C3: a single-best-hit resolver returns a map only when the query ids of
\* its records normalize to pairwise distinct keys.
C3_NormalizedDuplicateRejected ==
    (call.called /\ call.fn \in SingleHitResolvers /\ NormalizedClash(call.records))
    => call.outcome # "ok"

\* What the code does keep of C3: create_m1_reference and
\* create_amp_assem_reference return no map on such a stream.
C3_HoldsOfM1AndAmpAssem ==
    (call.called
     /\ call.fn \in {"create_m1_reference", "create_amp_assem_reference"}
     /\ NormalizedClash(call.records))
    => call.outcome # "ok"

(***************************************************************************)
(* C4                                                                      *)
(***************************************************************************)

\* The sequence names of every record of every listed file, in order.
RECURSIVE PhasedNames(_)
PhasedNames(lines) ==
    IF lines = <<>> THEN <<>>
    ELSE LET names == FastaFiles[Head(lines)]
         IN  [i \in 1..Len(names) |-> Split(names[i])[1]]
             \o PhasedNames(Tail(lines))

\* C4: a phased-contig manifest in which a sequence name comes up twice is
\* refused instead of resolved.
C4_PhasedDuplicateRejected ==
    (call.called /\ call.fn = "create_phased_reference")
    => LET names == PhasedNames(call.records)
       IN  (\E i, j \in 1..Len(names) : i # j /\ names[i] = names[j])
           => call.outcome # "ok"

(***************************************************************************)
(* C5                                                                      *)
(***************************************************************************)

\* C5: with a reference mapping supplied, whatever it holds, a record whose
\* target is not one of its keys ends resolution in an error.
C5_UnknownTargetRejected ==
    /\ (/\ call.called
        /\ call.fn \in {"create_m1_reference", "create_sam_reference"}
        /\ call.reference.given
        /\ \E i \in 1..Len(call.records) :
              TakeUntil(call.records[i].tname, {"|"}) \notin DOMAIN call.reference.map)
       => call.outcome # "ok"
    /\ (/\ ctor.called
        /\ ctor.reference.given
        /\ \E i \in 1..Len(ctor.content) :
              ctor.content[i].tname \notin DOMAIN ctor.reference.map)
       => ctor.outcome # "ok"

\* What the code does keep of C5: the same, for a mapping that is not empty.
C5_HoldsOfNonEmptyReference ==
    /\ (/\ call.called
        /\ call.fn \in {"create_m1_reference", "create_sam_reference"}
        /\ call.reference.given /\ DOMAIN call.reference.map # {}
        /\ \E i \in 1..Len(call.records) :
              TakeUntil(call.records[i].tname, {"|"}) \notin DOMAIN call.reference.map)
       => call.outcome # "ok"
    /\ (/\ ctor.called
        /\ ctor.reference.given /\ DOMAIN ctor.reference.map # {}
        /\ \E i \in 1..Len(ctor.content) :
              ctor.content[i].tname \notin DOMAIN ctor.reference.map)
       => ctor.outcome # "ok"

(***************************************************************************)
(* C6                                                                      *)
(***************************************************************************)

\* Some alignment record of the query has its two strands disagree.
StrandsDisagree(alignment, query) ==
    \E j \in 1..Len(alignment) :
        /\ alignment[j].qname = query
        /\ alignment[j].qstrand # alignment[j].tstrand

OrientCalled == orient'.n = orient.n + 1

\* The call of this step found a file that is there and not empty at the
\* path it works on.
OutputWasValid ==
    /\ files[orient'.output_file].exists
    /\ files[orient'.output_file].records # <<>>

\* The call of this step returned its output path and did nothing else.
ShortCircuited ==
    /\ orient'.outcome = "returned"
    /\ orient'.work = <<>>
    /\ files' = files

\* The call of this step repeats the call before it, which had returned.
RepeatsReturnedCall ==
    /\ orient.n > 0
    /\ orient.outcome = "returned"
    /\ orient'.input_file = orient.input_file
    /\ orient'.alignment_given = orient.alignment_given
    /\ orient'.output_arg = orient.output_arg

Token(s) == s # <<>> /\ \A i \in 1..Len(s) : s[i] \notin Whitespace

TokensOnly(d) == \A k \in DOMAIN d : Token(k) /\ Token(d[k])

\* C8 as stated: whatever the map held, reloading the written key file
\* returns an object holding the same pairs.
C8_RoundTripAnyState ==
    lastOp.op = "reload" =>
        (lastOp.outcome = "ok" /\ dicts["reload"] = snapshot)

\* C8 amended: when every id and label of the written map is a non-empty
\* string without whitespace, reloading the key file returns a map with the
\* same pairs, whatever the order write() iterated in, and the reloaded map
\* rejects the insertion of every key it holds.
C8_RoundTripTokens ==
    [][/\ (lastOp'.op = "reload" /\ TokensOnly(snapshot'))
          => (lastOp'.outcome = "ok" /\ dicts'["reload"] = snapshot')
       /\ (lastOp'.op = "setitem" /\ lastOp'.obj = "reload"
           /\ lastOp'.key \in DOMAIN dicts["reload"])
          => (lastOp'.outcome = "KeyError" /\ dicts' = dicts)]_vars

\* A map of two clean entries reloaded, then an insertion into it rejected.
C8_Witness ==
    /\ "reload" \in DOMAIN dicts
    /\ dicts["reload"] = snapshot
    /\ Cardinality(DOMAIN snapshot) = 2
    /\ lastOp.op = "setitem" /\ lastOp.obj = "reload"
    /\ lastOp.outcome = "KeyError"

(***************************************************************************)
(* C9                                                                      *)
(***************************************************************************)

\* The key the manifest mode is to use for a record name: its first
\* whitespace-delimited token, cut at the first '_' unless it holds '__'.
ExpectedKey(name) ==
    LET token == Split(name)[1]
        marked == \E i \in 1..(Len(token) - 1) : token[i] = "_" /\ token[i + 1] = "_"
    IN  IF marked THEN token ELSE SplitOn(token, "_")[1]

\* The (key, locus) pairs of every record of every listed file, in order.
RECURSIVE ExpectedPairs(_)
ExpectedPairs(lines) ==
    IF lines = <<>> THEN <<>>
    ELSE LET toks == Split(Head(lines))
             names == FastaFiles[toks[1]]
         IN  [i \in 1..Len(names) |->
                 [key |-> ExpectedKey(names[i]), locus |-> toks[2]]]
             \o ExpectedPairs(Tail(lines))

WellFormed(lines) == \A i \in 1..Len(lines) : Len(Split(lines[i])) = 2

\* C9: in manifest mode every record of every listed file is assigned its
\* line's locus under its key, and construction raises the duplicate KeyError
\* exactly when two records, of one file or of two lines, yield the same key.
C9_ManifestAssignsOrRejects ==
    (ctor.called /\ FileType(ctor.input_file) = S_fofn /\ WellFormed(ctor.content))
    => LET pairs == ExpectedPairs(ctor.content)
           clash == \E i, j \in 1..Len(pairs) : i # j /\ pairs[i].key = pairs[j].key
       IN  IF clash
           THEN ctor.outcome = "KeyError"
           ELSE /\ ctor.outcome = "ok"
                /\ DOMAIN ctor.dict = {pairs[i].key : i \in 1..Len(pairs)}
                /\ \A i \in 1..Len(pairs) : ctor.dict[pairs[i].key] = pairs[i].locus

\* Two manifest lines with different loci, one of them listing records whose
\* names hold '__', resolved into one map.
C9_Witness ==
    /\ ctor.called /\ FileType(ctor.input_file) = S_fofn
    /\ ctor.outcome = "ok"
    /\ Len(ctor.content) = 2
    /\ Cardinality(DOMAIN ctor.dict) = 4
    /\ Cardinality({ctor.dict[k] : k \in DOMAIN ctor.dict}) = 2

\* A record of a second manifest line repeating a key of the first.
C9_WitnessDuplicate ==
    /\ ctor.called /\ FileType(ctor.input_file) = S_fofn
    /\ WellFormed(ctor.content)
    /\ Len(ctor.content) = 2
    /\ ctor.outcome = "KeyError"
    /\ ctor.dict # EmptyDict

(***************************************************************************)
(* C10                                                                     *)
(***************************************************************************)

Recognized == {S_fofn, S_txt, S_m1, S_sam}

\* The parser each recognized extension selects.
ParserFor(t) ==
    CASE t = S_fofn -> "parse_reference_fofn"
      [] t = S_txt -> "parse_locus_key"
      [] t = S_m1 -> "parse_blasr_file"
      [] t = S_sam -> "parse_sam_file"

\* C10: an unrecognized extension ends construction with ValueError with no
\* parser run, the input file never opened and the map empty; a recognized
\* one runs exactly one parser, its own.
C10_UnsupportedFormatFirst ==
    ctor.called =>
        LET t == FileType(ctor.input_file)
        IN  IF t \notin Recognized
            THEN /\ ctor.outcome = "ValueError"
                 /\ ctor.parsers = <<>>
                 /\ ctor.opened = 0
                 /\ ctor.dict = EmptyDict
            ELSE /\ ctor.parsers = <<ParserFor(t)>>
                 /\ ctor.opened = 1

\* A file that is not empty, under an unrecognized extension, refused.
C10_Witness ==
    /\ ctor.called
    /\ FileType(ctor.input_file) \notin Recognized
    /\ ctor.content # <<>>
    /\ ctor.outcome = "ValueError"

(***************************************************************************)
(* C11                                                                     *)
(***************************************************************************)

\* The call of this step was given an output path whose extension is neither
\* fasta nor fastq.
OutputArgUnsupported ==
    /\ orient'.output_arg # <<>>
    /\ get_file_type(orient'.output_arg) \notin {S_fasta, S_fastq}

\* The call of this step raised TypeError with the aligner not invoked, no
\* alignment or sequence file read and every output file left as it was.
FailedBeforeWork ==
    /\ orient'.outcome = "TypeError"
    /\ orient'.output_file = orient'.output_arg
    /\ orient'.work = <<>>
    /\ orient'.aligns = orient.aligns
    /\ orient'.writes = orient.writes
    /\ files' = files

\* C11: a call given an output path whose extension is not fasta or fastq
\* raises TypeError before the aligner is invoked, before any alignment or
\* sequence file is read and before any output is written, whether a file is
\* already there at that path or not.
C11_UnsupportedOutputRejectedFirst ==
    [][(OrientCalled /\ OutputArgUnsupported) => FailedBeforeWork]_vars

\* A call given o.txt, where a file that is not empty already was, with a
\* readable two-record input and no alignment file supplied: refused with
\* TypeError, nothing aligned, read or written.
C11_Witness ==
    /\ orient.n > 0
    /\ orient.output_arg = O_txt
    /\ orient.input_file = I_fasta
    /\ ~orient.alignment_given
    /\ Len(seqfile) = 2
    /\ valid_file(files, O_txt)
    /\ orient.outcome = "TypeError"
    /\ orient.work = <<>>
    /\ orient.aligns = 0
    /\ orient.writes = 0

====
